---- MODULE Spec2Model ----
(***************************************************************************)
(* git-clone-stats: the storage managers (SQLite DatabaseManager and       *)
(* FirestoreDatabaseManager), the synchronizer (GitHubStatsTracker,        *)
(* run_sync), the background scheduler and the /api request handlers.      *)
(*                                                                         *)
(* A table is the set of its rows; a row is a record of its columns.  SQL  *)
(* NULL (and an absent Firestore field) is NULL.  Timestamps written by    *)
(* the program are readings of the clock `now`; the day of a history       *)
(* record is a number in Days.  is_active is 1 / 0 as SQLite stores it.    *)
(***************************************************************************)
EXTENDS Integers, Sequences, FiniteSets, TLC

\* ---------------------------------------------------------------- bounds
MaxDay == 2
MaxCount == 1
MaxStars == 1
MaxClock == 3
MaxOps == 3
MaxCycles == 2
MaxRequests == 1
FirstQueryDay == 21
MaxDrift == 1

Repos == {"r1", "r2"}
Days == 1..MaxDay
Counts == 0..MaxCount
Stars == 0..MaxStars
Backends == {"sqlite", "firestore"}
OwnerTypes == {"user", "org"}

\* SQL NULL / an absent document field, in a numeric or timestamp column and
\* in a text column.
NULL == 0
NULLTEXT == ""

VARIABLES
    backend,        \* which manager get_database_manager returns
    clone_history,  \* rows [repo, timestamp, count, uniques]
    view_history,   \* rows [repo, timestamp, count, uniques]
    tracked_repos,  \* rows [repo_name, added_at, is_active, last_sync, owner_type]
    repo_stars,     \* rows [repo, star_count, last_updated]
    now,            \* the wall clock
    ops,            \* number of storage calls made by the single caller
    last,           \* the last storage call: its name, arguments and outcome
    configured,     \* GITHUB_TOKEN and GITHUB_USERNAME are both set
    bg,             \* the run_sync caller: position, batch, current repository
    cycle,          \* what the last / current sync cycle did
    http,           \* the request handler thread
    proc,           \* the process: environment variables, writable directories,
                    \* the module global _resolved_db_path
    txn,            \* the open write transactions, one per connection
    sched           \* the BackgroundSyncThread: its flag and its loop

db == <<clone_history, view_history, tracked_repos, repo_stars>>
vars == <<backend, clone_history, view_history, tracked_repos, repo_stars, now,
          ops, last, configured, bg, cycle, http, proc, txn, sched>>

\* What no sync cycle and no storage call changes.
process == <<configured, proc, txn, sched>>

\* ------------------------------------------------------------ record model

\* CloneRecord / ViewRecord: the three fields of one day.
Record(c, t, u) == [count |-> c, timestamp |-> t, uniques |-> u]

RecordVals == {cu \in Counts \X Counts : cu[2] <= cu[1]}

\* Record lists handed to a merge-write, days ascending as the upstream
\* traffic API delivers them: no day, one day, or every day with the same
\* counters.
Batches ==
    {<<>>}
    \cup {<<Record(cu[1], d, cu[2])>> : d \in Days, cu \in RecordVals}
    \cup {[d \in Days |-> Record(cu[1], d, cu[2])] : cu \in RecordVals}

\* ------------------------------------------------------- SQLite statements

HistoryRow(repo, rec) ==
    [repo |-> repo, timestamp |-> rec.timestamp,
     count |-> rec.count, uniques |-> rec.uniques]

\* PRIMARY KEY (repo, timestamp) of clone_history and view_history.
SameKey(x, row) == x.repo = row.repo /\ x.timestamp = row.timestamp

\* INSERT OR REPLACE INTO <history>: the conflicting row is deleted first.
InsertOrReplace(table, row) == {x \in table : ~SameKey(x, row)} \cup {row}

\* INSERT OR IGNORE INTO <history>: a conflicting row keeps the old values.
InsertOrIgnore(table, row) ==
    IF \E x \in table : SameKey(x, row) THEN table ELSE table \cup {row}

\* executemany: the statement is run for each parameter tuple in list order.
RECURSIVE ExecuteManyReplace(_, _)
ExecuteManyReplace(table, rows) ==
    IF rows = <<>> THEN table
    ELSE ExecuteManyReplace(InsertOrReplace(table, Head(rows)), Tail(rows))

RECURSIVE ExecuteManyIgnore(_, _)
ExecuteManyIgnore(table, rows) ==
    IF rows = <<>> THEN table
    ELSE ExecuteManyIgnore(InsertOrIgnore(table, Head(rows)), Tail(rows))

RowsOf(repo, records) == [i \in 1..Len(records) |-> HistoryRow(repo, records[i])]

\* ------------------------------------------------ DatabaseManager (SQLite)

insert_clone_records(table, repo, records) ==
    IF records = <<>> THEN table
    ELSE ExecuteManyIgnore(table, RowsOf(repo, records))

\* A merge-write that keeps the stored row on a key conflict.
upsert_clone_records_ignore(table, repo, records) ==
    IF records = <<>> THEN table
    ELSE ExecuteManyIgnore(table, RowsOf(repo, records))

\* A merge-write that first deletes the repository's stored records.
upsert_clone_records_rewrite(table, repo, records) ==
    IF records = <<>> THEN table
    ELSE ExecuteManyReplace({x \in table : x.repo # repo}, RowsOf(repo, records))

upsert_clone_records(table, repo, records) ==
    IF records = <<>> THEN table
    ELSE ExecuteManyReplace(table, RowsOf(repo, records))

\* A merge-write that adds the incoming counters to the stored ones.
RECURSIVE ExecuteManyAccumulate(_, _)
ExecuteManyAccumulate(table, rows) ==
    IF rows = <<>> THEN table
    ELSE LET row == Head(rows)
             old == {x \in table : SameKey(x, row)}
             new == IF old = {} THEN row
                    ELSE LET o == CHOOSE x \in old : TRUE
                         IN  [row EXCEPT !.count = @ + o.count,
                                         !.uniques = @ + o.uniques]
         IN  ExecuteManyAccumulate((table \ old) \cup {new}, Tail(rows))

upsert_view_records_accumulate(table, repo, records) ==
    IF records = <<>> THEN table
    ELSE ExecuteManyAccumulate(table, RowsOf(repo, records))

upsert_view_records(table, repo, records) ==
    IF records = <<>> THEN table
    ELSE ExecuteManyReplace(table, RowsOf(repo, records))

\* SELECT repo_name, owner_type FROM tracked_repos WHERE is_active = 1
get_tracked_repos(table) ==
    {[repo_name |-> x.repo_name,
      owner_type |-> IF x.owner_type = NULLTEXT THEN "user" ELSE x.owner_type] :
        x \in {y \in table : y.is_active = 1}}

\* A plain INSERT into a table without the primary key.
add_tracked_repo_insert(table, repo_name, owner_type, t) ==
    table \cup {[repo_name |-> repo_name, added_at |-> t, is_active |-> 1,
                 last_sync |-> NULL, owner_type |-> owner_type]}

\* INSERT OR REPLACE INTO tracked_repos (repo_name, added_at, is_active,
\* owner_type): the old row goes, the unnamed column last_sync is NULL.
add_tracked_repo(table, repo_name, owner_type, t) ==
    {x \in table : x.repo_name # repo_name}
    \cup {[repo_name |-> repo_name, added_at |-> t, is_active |-> 1,
           last_sync |-> NULL, owner_type |-> owner_type]}

\* DELETE FROM tracked_repos WHERE repo_name = ?
remove_tracked_repo_delete(table, repo_name) ==
    {x \in table : x.repo_name # repo_name}

\* UPDATE tracked_repos SET is_active = 1 - is_active WHERE repo_name = ?
remove_tracked_repo_toggle(table, repo_name) ==
    {IF x.repo_name = repo_name THEN [x EXCEPT !.is_active = 1 - @] ELSE x :
        x \in table}

\* UPDATE tracked_repos SET is_active = 0 WHERE repo_name = ?
remove_tracked_repo(table, repo_name) ==
    {IF x.repo_name = repo_name THEN [x EXCEPT !.is_active = 0] ELSE x :
        x \in table}

\* UPDATE tracked_repos SET last_sync = ? without its WHERE clause.
update_tracked_repo_all(table, repo_name, t) ==
    {[x EXCEPT !.last_sync = t] : x \in table}

\* UPDATE tracked_repos SET last_sync = ? WHERE repo_name = ?
update_tracked_repo(table, repo_name, t) ==
    {IF x.repo_name = repo_name THEN [x EXCEPT !.last_sync = t] ELSE x :
        x \in table}

\* INSERT OR REPLACE INTO repo_stars (repo, star_count, last_updated)
update_repo_stars(table, repo, star_count, t) ==
    {x \in table : x.repo # repo}
    \cup {[repo |-> repo, star_count |-> star_count, last_updated |-> t]}

EmptyDb ==
    [clone_history |-> {}, view_history |-> {}, tracked_repos |-> {},
     repo_stars |-> {}]

\* A setup that drops the tables before it creates them.
setup_database_recreate(d) == EmptyDb

\* setup_database: CREATE TABLE IF NOT EXISTS leaves a table that exists as
\* it is.  ALTER TABLE tracked_repos ADD COLUMN owner_type TEXT DEFAULT
\* 'user' raises on a table that has the column, which is ignored; on a table
\* without it every row reads 'user' in the new column.
setup_database(d) ==
    [d EXCEPT !.tracked_repos =
        {IF "owner_type" \in DOMAIN x THEN x
         ELSE [k \in DOMAIN x \cup {"owner_type"} |->
                    IF k = "owner_type" THEN "user" ELSE x[k]] : x \in @}]

HistoryKeys == {"repo", "timestamp", "count", "uniques"}
TrackedKeys == {"repo_name", "added_at", "is_active"}
StarKeys == {"repo", "star_count", "last_updated"}

\* record["k"] for every k the statement's tuple names: a missing key is a
\* KeyError.
AllHaveKeys(list, keys) == \A i \in 1..Len(list) : keys \subseteq DOMAIN list[i]

ImportHistoryRows(list) ==
    [i \in 1..Len(list) |->
        [repo |-> list[i].repo, timestamp |-> list[i].timestamp,
         count |-> list[i].count, uniques |-> list[i].uniques]]

\* INSERT OR REPLACE INTO tracked_repos (repo_name, added_at, is_active):
\* last_sync is NULL and owner_type its DEFAULT 'user' in the new row.
RECURSIVE ImportTracked(_, _)
ImportTracked(table, list) ==
    IF list = <<>> THEN table
    ELSE ImportTracked(
            {x \in table : x.repo_name # Head(list).repo_name}
            \cup {[repo_name |-> Head(list).repo_name,
                   added_at |-> Head(list).added_at,
                   is_active |-> Head(list).is_active,
                   last_sync |-> NULL, owner_type |-> "user"]},
            Tail(list))

RECURSIVE ImportStars(_, _)
ImportStars(table, list) ==
    IF list = <<>> THEN table
    ELSE ImportStars(
            update_repo_stars(table, Head(list).repo, Head(list).star_count,
                              Head(list).last_updated),
            Tail(list))

\* import_database: the clearing and each of the four collections is its own
\* transaction; an error (sqlite3.Error at stage `fail`, or a KeyError) ends
\* the import with False and leaves the transactions already committed.
import_database(d, data, replace_existing, fail) ==
    LET d0 == IF replace_existing THEN EmptyDb ELSE d
        d1 == IF data.clone_history = <<>> THEN d0
              ELSE [d0 EXCEPT !.clone_history =
                        ExecuteManyIgnore(@, ImportHistoryRows(data.clone_history))]
        d2 == IF data.view_history = <<>> THEN d1
              ELSE [d1 EXCEPT !.view_history =
                        ExecuteManyIgnore(@, ImportHistoryRows(data.view_history))]
        d3 == IF data.tracked_repos = <<>> THEN d2
              ELSE [d2 EXCEPT !.tracked_repos = ImportTracked(@, data.tracked_repos)]
        d4 == IF data.repo_stars = <<>> THEN d3
              ELSE [d3 EXCEPT !.repo_stars = ImportStars(@, data.repo_stars)]
    IN  IF replace_existing /\ fail = "clear"
            THEN [db |-> d, ret |-> FALSE]
        ELSE IF data.clone_history # <<>>
                /\ (fail = "clone_history"
                    \/ ~AllHaveKeys(data.clone_history, HistoryKeys))
            THEN [db |-> d0, ret |-> FALSE]
        ELSE IF data.view_history # <<>>
                /\ (fail = "view_history"
                    \/ ~AllHaveKeys(data.view_history, HistoryKeys))
            THEN [db |-> d1, ret |-> FALSE]
        ELSE IF data.tracked_repos # <<>>
                /\ (fail = "tracked_repos"
                    \/ ~AllHaveKeys(data.tracked_repos, TrackedKeys))
            THEN [db |-> d2, ret |-> FALSE]
        ELSE IF data.repo_stars # <<>>
                /\ (fail = "repo_stars"
                    \/ ~AllHaveKeys(data.repo_stars, StarKeys))
            THEN [db |-> d3, ret |-> FALSE]
        ELSE [db |-> d4, ret |-> TRUE]

\* ------------------------------------------------ FirestoreDatabaseManager

\* The document id f"{repo}_{timestamp}" of a history document.
DocId(row) == <<row.repo, row.timestamp>>

\* batch.set(doc_ref, data): the document with that id is replaced.
DocSet(table, row) == {x \in table : DocId(x) # DocId(row)} \cup {row}

RECURSIVE BatchSet(_, _)
BatchSet(table, rows) ==
    IF rows = <<>> THEN table
    ELSE BatchSet(DocSet(table, Head(rows)), Tail(rows))

Firestore_upsert_clone_records(table, repo, records) ==
    BatchSet(table, RowsOf(repo, records))

Firestore_upsert_view_records(table, repo, records) ==
    BatchSet(table, RowsOf(repo, records))

\* where('is_active', '==', True); data.get("owner_type", "user")
Firestore_get_tracked_repos(table) ==
    {[repo_name |-> x.repo_name,
      owner_type |-> IF x.owner_type = NULLTEXT THEN "user" ELSE x.owner_type] :
        x \in {y \in table : y.is_active = 1}}

\* doc_ref.set({...}): the whole document is replaced, last_sync is dropped.
Firestore_add_tracked_repo(table, repo_name, owner_type, t) ==
    {x \in table : x.repo_name # repo_name}
    \cup {[repo_name |-> repo_name, added_at |-> t, is_active |-> 1,
           last_sync |-> NULL, owner_type |-> owner_type]}

\* doc_ref.update({'is_active': False}); the caller sees NotFound when the
\* document does not exist.
Firestore_remove_tracked_repo(table, repo_name) ==
    {IF x.repo_name = repo_name THEN [x EXCEPT !.is_active = 0] ELSE x :
        x \in table}

\* doc_ref.set({repo_name, last_sync, is_active: True}, merge=True)
Firestore_update_tracked_repo(table, repo_name, t) ==
    IF \E x \in table : x.repo_name = repo_name
        THEN {IF x.repo_name = repo_name
                THEN [x EXCEPT !.last_sync = t, !.is_active = 1] ELSE x :
                x \in table}
        ELSE table \cup {[repo_name |-> repo_name, added_at |-> NULL,
                          is_active |-> 1, last_sync |-> t,
                          owner_type |-> NULLTEXT]}

\* ------------------------------------------------------ the read adapter

RECURSIVE Ascending(_)
Ascending(rows) ==
    IF rows = {} THEN <<>>
    ELSE LET first == CHOOSE x \in rows : \A y \in rows : x.timestamp <= y.timestamp
         IN  <<[timestamp |-> first.timestamp, count |-> first.count,
                uniques |-> first.uniques]>> \o Ascending(rows \ {first})

\* SELECT timestamp, count, uniques FROM <table> WHERE repo = ?
\* ORDER BY timestamp DESC LIMIT ?, returned reversed.
get_repo_history(table, repo_name, days) ==
    LET mine == {x \in table : x.repo = repo_name}
        newest == {x \in mine :
                     Cardinality({y \in mine : y.timestamp > x.timestamp}) < days}
    IN  Ascending(newest)

\* The `days` of a history request that names none.
DefaultDays == 30

\* ------------------------------------------------- the summary queries

\* datetime('now', '-14 days')
WindowDays == 14

\* datetime(timestamp) >= datetime('now', '-14 days'): a record is stamped
\* with the midnight of its day, so the day `today - 14` counts only for a
\* query made at midnight sharp.
InWindow(day, today, midnight) ==
    IF midnight THEN day >= today - WindowDays ELSE day > today - WindowDays

\* SUM(column) over rows, 0 for no rows (`or 0`, COALESCE(..., 0)).
RECURSIVE SumOf(_, _)
SumOf(rows, column) ==
    IF rows = {} THEN 0
    ELSE LET x == CHOOSE y \in rows : TRUE
         IN  x[column] + SumOf(rows \ {x}, column)

\* MIN(timestamp), NULL for no rows.
MinDay(rows) ==
    IF rows = {} THEN NULL
    ELSE (CHOOSE x \in rows : \A y \in rows : x.timestamp <= y.timestamp).timestamp

\* COALESCE(a, b)
Coalesce(a, b) == IF a # NULL THEN a ELSE b

RowsOfRepo(table, repo_name) == {x \in table : x.repo = repo_name}

Recent(table, repo_name, today, midnight) ==
    {x \in RowsOfRepo(table, repo_name) : InWindow(x.timestamp, today, midnight)}

\* SQLiteAdapter.get_stats_for_repo.  The timestamp query joins the tracked
\* row with the clone rows and those with the view rows, and takes
\* MIN(COALESCE(ch.timestamp, vh.timestamp)): with a clone row in every joined
\* row the view timestamps are never looked at.  Without a tracked row the
\* query has no row.
get_stats_for_repo(d, repo_name, today, midnight) ==
    LET ch == RowsOfRepo(d.clone_history, repo_name)
        vh == RowsOfRepo(d.view_history, repo_name)
        rc == Recent(d.clone_history, repo_name, today, midnight)
        rv == Recent(d.view_history, repo_name, today, midnight)
        tr == {x \in d.tracked_repos : x.repo_name = repo_name}
    IN  [repo |-> repo_name,
         total_clones |-> SumOf(ch, "count"),
         total_unique_clones |-> SumOf(ch, "uniques"),
         total_views |-> SumOf(vh, "count"),
         total_unique_views |-> SumOf(vh, "uniques"),
         last_14_days_clones |-> SumOf(rc, "count"),
         last_14_days_unique_clones |-> SumOf(rc, "uniques"),
         last_14_days_views |-> SumOf(rv, "count"),
         last_14_days_unique_views |-> SumOf(rv, "uniques"),
         last_updated |-> IF tr = {} THEN NULL
                          ELSE (CHOOSE x \in tr : TRUE).last_sync,
         first_collected |-> IF tr = {} THEN NULL
                             ELSE IF ch # {} THEN MinDay(ch) ELSE MinDay(vh)]

\* SQLiteAdapter.get_all_repos_summary: one row per active tracked
\* repository, ordered by repo_name.
get_all_repos_summary(d, today, midnight) ==
    {LET ch == RowsOfRepo(d.clone_history, tr.repo_name)
         vh == RowsOfRepo(d.view_history, tr.repo_name)
         rc == Recent(d.clone_history, tr.repo_name, today, midnight)
         rv == Recent(d.view_history, tr.repo_name, today, midnight)
         rs == RowsOfRepo(d.repo_stars, tr.repo_name)
     IN  [repo |-> tr.repo_name,
          total_clones |-> SumOf(ch, "count"),
          total_unique_clones |-> SumOf(ch, "uniques"),
          total_views |-> SumOf(vh, "count"),
          total_unique_views |-> SumOf(vh, "uniques"),
          last_14_days_clones |-> SumOf(rc, "count"),
          last_14_days_unique_clones |-> SumOf(rc, "uniques"),
          last_14_days_views |-> SumOf(rv, "count"),
          last_14_days_unique_views |-> SumOf(rv, "uniques"),
          star_count |-> SumOf(rs, "star_count"),
          last_updated |-> tr.last_sync,
          first_collected |-> Coalesce(MinDay(ch), MinDay(vh))]
     : tr \in {x \in d.tracked_repos : x.is_active = 1}}

\* FirestoreDatabaseManager.get_clone_history / get_view_history: the cutoff
\* is the midnight of today whatever `days` says.
Firestore_get_history(table, repo, today) ==
    {x \in RowsOfRepo(table, repo) : x.timestamp >= today}

\* FirestoreDatabaseManager.get_aggregated_data: nothing ever calls
\* upsert_aggregated_data, the collection has no document.
get_aggregated_data == [x \in {} |-> 0]

AggGet(agg, key) == IF key \in DOMAIN agg THEN agg[key] ELSE 0

\* FirestoreAdapter.get_stats_for_repo
Firestore_get_stats_for_repo(d, repo_name, today) ==
    LET agg == get_aggregated_data
        ch == Firestore_get_history(d.clone_history, repo_name, today)
        vh == Firestore_get_history(d.view_history, repo_name, today)
    IN  [repo |-> repo_name,
         total_clones |-> SumOf(ch, "count"),
         total_unique_clones |-> SumOf(ch, "uniques"),
         total_views |-> SumOf(vh, "count"),
         total_unique_views |-> SumOf(vh, "uniques"),
         last_14_days_clones |-> AggGet(agg, "total_clones"),
         last_14_days_unique_clones |-> AggGet(agg, "unique_clones"),
         last_14_days_views |-> AggGet(agg, "total_views"),
         last_14_days_unique_views |-> AggGet(agg, "unique_views"),
         last_updated |-> AggGet(agg, "last_updated")]

\* FirestoreAdapter.get_all_repos_summary iterates the dicts that
\* get_tracked_repos returns and hands each to get_aggregated_data, that is
\* to collection.document(<dict>): the client library either refuses the
\* path (the exception reaches send_stats) or looks up a document that does
\* not exist.  With two entries sorted() compares two dicts: TypeError.
Firestore_get_all_repos_summary(d) ==
    LET repos == Firestore_get_tracked_repos(d.tracked_repos)
        agg == get_aggregated_data
        results == {[repo |-> repo,
                     last_14_days_clones |-> AggGet(agg, "total_clones"),
                     last_14_days_unique_clones |-> AggGet(agg, "unique_clones"),
                     last_14_days_views |-> AggGet(agg, "total_views"),
                     last_14_days_unique_views |-> AggGet(agg, "unique_views"),
                     last_updated |-> AggGet(agg, "last_updated")] : repo \in repos}
    IN  IF repos = {} THEN {[raised |-> FALSE, results |-> {}]}
        ELSE IF Cardinality(repos) > 1 THEN {[raised |-> TRUE, results |-> {}]}
        ELSE {[raised |-> TRUE, results |-> {}],
              [raised |-> FALSE, results |-> results]}

\* ------------------------------------------- the process and its settings

\* Names are sequences of characters here, so that the search for '/' and
\* the f-string are computed.  GITHUB_ORG unset and GITHUB_ORG='' are both
\* falsy: <<>>.
RepoNames == {<<"r">>, <<"o", "/", "r">>, <<"/", "r">>, <<"r", "/">>}
Usernames == {<<"u">>, <<"u", "2">>}
Orgs == {<<>>, <<"g">>}
OwnerTypeArgs == OwnerTypes \cup {"team"}

\* '/' in repo_name
Contains(name, char) == \E i \in 1..Len(name) : name[i] = char

\* A resolution that takes GITHUB_ORG for every 'org' repository, set or not.
get_repo_path_org_unchecked(repo_name, owner_type, github_username, github_org) ==
    IF Contains(repo_name, "/") THEN repo_name
    ELSE (IF owner_type = "org" THEN github_org ELSE github_username)
         \o <<"/">> \o repo_name

\* GitHubStatsTracker._get_repo_path
get_repo_path(repo_name, owner_type, github_username, github_org) ==
    IF Contains(repo_name, "/") THEN repo_name
    ELSE LET owner == IF owner_type = "org"
                        THEN IF github_org = <<>> THEN github_username
                             ELSE github_org
                        ELSE github_username
         IN  owner \o <<"/">> \o repo_name

\* Values of ALLOW_DB_FALLBACK (unset reads as ''), and str.lower on them.
FallbackFlags == {"", "true", "True", "1"}
Lower(text) == IF text = "True" THEN "true" ELSE text

\* A resolution that compares ALLOW_DB_FALLBACK with 'true' as it is spelled.
get_resolved_database_path_exact(p) ==
    IF p.resolved_db_path # NULLTEXT THEN p.resolved_db_path
    ELSE IF p.primary_writable THEN "primary"
    ELSE IF p.allow_db_fallback = "true" /\ p.fallback_writable THEN "fallback"
    ELSE "primary"

\* get_resolved_database_path: the module global is returned once it is set;
\* else the primary location when its directory passes the write test, else
\* the fallback location when ALLOW_DB_FALLBACK is 'true' and its directory
\* passes the write test, else the primary location anyway.
get_resolved_database_path(p) ==
    IF p.resolved_db_path # NULLTEXT THEN p.resolved_db_path
    ELSE IF p.primary_writable THEN "primary"
    ELSE LET allow_fallback == Lower(p.allow_db_fallback) = "true"
         IN  IF allow_fallback /\ p.fallback_writable THEN "fallback"
             ELSE "primary"

\* SQLiteAdapter.__init__: db_path is the absolute path of DATABASE_PATH, the
\* primary location, whatever the process resolved.
SQLiteAdapter_db_path(p) == "primary"

Procs ==
    [github_username : Usernames, github_org : Orgs,
     allow_db_fallback : FallbackFlags,
     primary_writable : BOOLEAN, fallback_writable : BOOLEAN,
     resolved_db_path : {NULLTEXT}]

\* The process the other specifications run in: no organization, the
\* primary location writable and resolved at start-up.
StartedProc ==
    [github_username |-> <<"u">>, github_org |-> <<>>,
     allow_db_fallback |-> "", primary_writable |-> TRUE,
     fallback_writable |-> TRUE, resolved_db_path |-> "primary"]

\* The connections that write history: the one of the background run_sync
\* and one of another caller (a second process, a request handler).  Every
\* caller opens its own connection; a connection is idle or inside the
\* `with self.conn:` / batch of one merge-write.
Conns == {"bg", "other"}
IdleTxn == [pc |-> "idle", kind |-> "", done |-> <<>>, todo |-> <<>>,
            outcome |-> "none"]
NoTxn == [c \in Conns |-> IdleTxn]

\* ----------------------------------------------- storage calls, one caller

Tables ==
    [clone_history |-> clone_history, view_history |-> view_history,
     tracked_repos |-> tracked_repos, repo_stars |-> repo_stars]

NoCall ==
    [op |-> "none", repo |-> "", arg |-> <<>>, ret |-> "", before |-> {},
     again |-> FALSE]

\* The log entry of a call: `before` holds the rows of `repo` in the table the
\* call addresses as they were when it was made, `again` tells that the call
\* before it was the same call with the same outcome.
Entry(op, repo, arg, ret, before) ==
    [op |-> op, repo |-> repo, arg |-> arg, ret |-> ret, before |-> before,
     again |-> (last.op = op /\ last.repo = repo /\ last.arg = arg
                /\ last.ret = ret)]

threads == <<process, bg, cycle, http>>

\* datetime.now() never reads the same instant twice while the clock runs.
Later == IF now < MaxClock THEN now + 1 ELSE now

\* FirestoreDatabaseManager.setup_database only logs.
CallSetup ==
    /\ ops < MaxOps
    /\ ops' = ops + 1
    /\ LET d == IF backend = "sqlite" THEN setup_database(Tables) ELSE Tables
       IN  /\ clone_history' = d.clone_history
           /\ view_history' = d.view_history
           /\ tracked_repos' = d.tracked_repos
           /\ repo_stars' = d.repo_stars
    /\ last' = Entry("setup_database", "", <<>>, "ok", {})
    /\ UNCHANGED <<backend, threads>>
    /\ now' = Later

CallUpsertClone(repo, records, ok) ==
    /\ ops < MaxOps
    /\ ok \/ records # <<>> \/ backend = "firestore"
    /\ ops' = ops + 1
    /\ clone_history' =
          IF ~ok THEN clone_history
          ELSE IF backend = "sqlite"
                THEN upsert_clone_records(clone_history, repo, records)
                ELSE Firestore_upsert_clone_records(clone_history, repo, records)
    /\ last' = IF ok THEN Entry("upsert_clone_records", repo, <<records>>, "ok",
                                 {x \in clone_history : x.repo = repo})
                ELSE Entry("upsert_clone_records", repo, <<>>, "raise", {})
    /\ UNCHANGED <<backend, view_history, tracked_repos, repo_stars, threads>>
    /\ now' = Later

CallUpsertView(repo, records, ok) ==
    /\ ops < MaxOps
    /\ ok \/ records # <<>> \/ backend = "firestore"
    /\ ops' = ops + 1
    /\ view_history' =
          IF ~ok THEN view_history
          ELSE IF backend = "sqlite"
                THEN upsert_view_records(view_history, repo, records)
                ELSE Firestore_upsert_view_records(view_history, repo, records)
    /\ last' = IF ok THEN Entry("upsert_view_records", repo, <<records>>, "ok",
                                 {x \in view_history : x.repo = repo})
                ELSE Entry("upsert_view_records", repo, <<>>, "raise", {})
    /\ UNCHANGED <<backend, clone_history, tracked_repos, repo_stars, threads>>
    /\ now' = Later

\* SQLite: sqlite3.Error is caught and False returned.  Firestore: the error
\* of doc_ref.set reaches the caller.
CallAddTrackedRepo(repo, owner_type, ok) ==
    /\ ops < MaxOps
    /\ ops' = ops + 1
    /\ tracked_repos' =
          IF ~ok THEN tracked_repos
          ELSE IF backend = "sqlite"
                THEN add_tracked_repo(tracked_repos, repo, owner_type, now)
                ELSE Firestore_add_tracked_repo(tracked_repos, repo, owner_type, now)
    /\ last' = Entry("add_tracked_repo", repo, <<owner_type>>,
                     IF ok THEN "true"
                     ELSE IF backend = "sqlite" THEN "false" ELSE "raise",
                     {x \in tracked_repos : x.repo_name = repo})
    /\ UNCHANGED <<backend, clone_history, view_history, repo_stars, threads>>
    /\ now' = Later

CallRemoveTrackedRepo(repo, ok) ==
    /\ ops < MaxOps
    /\ ops' = ops + 1
    /\ LET found == \E x \in tracked_repos : x.repo_name = repo
           done == ok /\ (backend = "sqlite" \/ found)
       IN  /\ tracked_repos' =
                 IF ~done THEN tracked_repos
                 ELSE IF backend = "sqlite"
                       THEN remove_tracked_repo(tracked_repos, repo)
                       ELSE Firestore_remove_tracked_repo(tracked_repos, repo)
           /\ last' = Entry("remove_tracked_repo", repo, <<>>,
                            IF done THEN "true"
                            ELSE IF backend = "sqlite" THEN "false" ELSE "raise",
                            {x \in tracked_repos : x.repo_name = repo})
    /\ UNCHANGED <<backend, clone_history, view_history, repo_stars, threads>>
    /\ now' = Later

\* SQLite: sqlite3.Error is caught and logged, nothing is returned.
CallUpdateTrackedRepo(repo, ok) ==
    /\ ops < MaxOps
    /\ ops' = ops + 1
    /\ tracked_repos' =
          IF ~ok THEN tracked_repos
          ELSE IF backend = "sqlite"
                THEN update_tracked_repo(tracked_repos, repo, now)
                ELSE Firestore_update_tracked_repo(tracked_repos, repo, now)
    /\ last' = Entry("update_tracked_repo", repo, <<>>,
                     IF ok \/ backend = "sqlite" THEN "ok" ELSE "raise",
                     {x \in tracked_repos : x.repo_name = repo})
    /\ UNCHANGED <<backend, clone_history, view_history, repo_stars, threads>>
    /\ now' = Later

\* FirestoreDatabaseManager has no update_repo_stars: AttributeError.
CallUpdateRepoStars(repo, star_count, ok) ==
    /\ ops < MaxOps
    /\ ops' = ops + 1
    /\ repo_stars' =
          IF ok /\ backend = "sqlite"
            THEN update_repo_stars(repo_stars, repo, star_count, now)
            ELSE repo_stars
    /\ last' = Entry("update_repo_stars", repo, <<star_count>>,
                     IF backend = "firestore" THEN "raise"
                     ELSE IF ok THEN "true" ELSE "false",
                     {x \in repo_stars : x.repo = repo})
    /\ UNCHANGED <<backend, clone_history, view_history, tracked_repos, threads>>
    /\ now' = Later

\* Where a sqlite3.Error strikes an import, if anywhere.
ImportFailures == {"none", "clear", "tracked_repos"}

\* Snapshots handed to import_database: the export of a store that holds one
\* repository, and one whose view record lacks a field.
Snapshot(r, active) ==
    [clone_history |-> <<[repo |-> r, timestamp |-> 1, count |-> MaxCount,
                          uniques |-> 0]>>,
     view_history |-> <<[repo |-> r, timestamp |-> MaxDay, count |-> MaxCount,
                         uniques |-> MaxCount]>>,
     tracked_repos |-> <<[repo_name |-> r, added_at |-> 1, is_active |-> active,
                          owner_type |-> "org"]>>,
     repo_stars |-> <<[repo |-> r, star_count |-> MaxStars, last_updated |-> 1]>>]

ImportSnapshots ==
    {Snapshot("r1", a) : a \in {0, 1}}
    \cup {[Snapshot("r1", 1) EXCEPT
            !.view_history = <<[repo |-> "r1", timestamp |-> 1, count |-> 0]>>]}

\* FirestoreDatabaseManager has no import_database: AttributeError.
CallImport(data, replace_existing, fail) ==
    /\ ops < MaxOps
    /\ ops' = ops + 1
    /\ LET d == [clone_history |-> clone_history, view_history |-> view_history,
                 tracked_repos |-> tracked_repos, repo_stars |-> repo_stars]
           r == IF backend = "sqlite"
                  THEN import_database(d, data, replace_existing, fail)
                  ELSE [db |-> d, ret |-> FALSE]
       IN  /\ clone_history' = r.db.clone_history
           /\ view_history' = r.db.view_history
           /\ tracked_repos' = r.db.tracked_repos
           /\ repo_stars' = r.db.repo_stars
           /\ last' = Entry("import_database", "", <<data, replace_existing>>,
                            IF backend = "firestore" THEN "raise"
                            ELSE IF r.ret THEN "true" ELSE "false",
                            {})
    /\ UNCHANGED <<backend, threads>>
    /\ now' = Later

\* BackgroundSyncThread.__init__ and start(): running is True, no iteration
\* of the loop was entered.  `passed` counts the loop tests that found the
\* flag set, `stopped_at` is the number of cycles begun when stop() was
\* called, `retry` the repositories that failed in the cycle before.
StartedThread == [running |-> TRUE, alive |-> TRUE, passed |-> 0,
                  stopped_at |-> 0, retry |-> {}]

\* bg.conn is the connection of the manager the latest run_sync was given:
\* "none" before __enter__ (and for no manager), then "open" or "closed".
IdleBg == [pc |-> "idle", queue |-> <<>>, cur |-> "", owner_type |-> "",
           coerced |-> FALSE, cycles |-> 0, conn |-> "none"]
NoCycle == [config_loaded |-> FALSE, storage_opened |-> FALSE, listed |-> {},
            attempted |-> {}, failed |-> {}, marked |-> {},
            malformed |-> {},
            done |-> [r \in Repos |-> {}], result |-> "none"]
IdleHttp == [pc |-> "idle", requests |-> 0, status |-> 0]

InitStore ==
    /\ backend \in Backends
    /\ clone_history = {}
    /\ view_history = {}
    /\ tracked_repos = {}
    /\ repo_stars = {}
    /\ now = 1
    /\ ops = 0
    /\ last = NoCall
    /\ configured = TRUE
    /\ bg = IdleBg
    /\ cycle = NoCycle
    /\ http = IdleHttp
    /\ proc = StartedProc
    /\ txn = NoTxn
    /\ sched = StartedThread

NextStore ==
    \/ CallSetup
    \/ \E r \in Repos, recs \in Batches, ok \in BOOLEAN : CallUpsertClone(r, recs, ok)
    \/ \E r \in Repos, recs \in Batches, ok \in BOOLEAN : CallUpsertView(r, recs, ok)
    \/ \E r \in Repos, ot \in OwnerTypes, ok \in BOOLEAN : CallAddTrackedRepo(r, ot, ok)
    \/ \E r \in Repos, ok \in BOOLEAN : CallRemoveTrackedRepo(r, ok)
    \/ \E r \in Repos, ok \in BOOLEAN : CallUpdateTrackedRepo(r, ok)
    \/ \E r \in Repos, n \in Stars, ok \in BOOLEAN : CallUpdateRepoStars(r, n, ok)
    \/ \E data \in ImportSnapshots, repl \in BOOLEAN, fail \in ImportFailures :
            CallImport(data, repl, fail)

SpecStore == InitStore /\ [][NextStore]_vars

\* ----------------------------------------- the read side, on a filled store

\* Ordered by (repo, timestamp), or by repo_name, or by repo: every table
\* has one row per key.
RECURSIVE Listed(_)
Listed(rows) ==
    IF rows = {} THEN <<>>
    ELSE LET x == CHOOSE y \in rows : TRUE
         IN  <<x>> \o Listed(rows \ {x})

\* DatabaseManager.export_database: last_sync is not among the columns it
\* selects from tracked_repos.
export_database(d) ==
    [clone_history |-> Listed(d.clone_history),
     view_history |-> Listed(d.view_history),
     tracked_repos |->
        Listed({[repo_name |-> x.repo_name, added_at |-> x.added_at,
                 is_active |-> x.is_active,
                 owner_type |-> IF x.owner_type # NULLTEXT THEN x.owner_type
                                ELSE "user"] : x \in d.tracked_repos}),
     repo_stars |-> Listed(d.repo_stars)]

\* Stores to query: clone rows of r1 at 20, 14, 10 and 1 days before the
\* first query day, view rows at 21 and 2 days before it.
CloneSamples ==
    {HistoryRow("r1", Record(100, FirstQueryDay - 20, 40)),
     HistoryRow("r1", Record(20, FirstQueryDay - 14, 5)),
     HistoryRow("r1", Record(50, FirstQueryDay - 10, 20)),
     HistoryRow("r1", Record(10, FirstQueryDay - 1, 10))}
ViewSamples ==
    {HistoryRow("r1", Record(7, FirstQueryDay - 21, 3)),
     HistoryRow("r1", Record(4, FirstQueryDay - 2, 4))}
TrackedSamples ==
    {{}} \cup
    {{[repo_name |-> "r1", added_at |-> 1, is_active |-> a, last_sync |-> ls,
       owner_type |-> "user"]} \cup other :
        a \in {0, 1}, ls \in {NULL, FirstQueryDay - 1},
        other \in {{}, {[repo_name |-> "r2", added_at |-> 1, is_active |-> 1,
                         last_sync |-> NULL, owner_type |-> "org"]}}}

InitQuery ==
    /\ backend \in Backends
    /\ clone_history \in SUBSET CloneSamples
    /\ view_history \in SUBSET ViewSamples
    /\ tracked_repos \in TrackedSamples
    /\ repo_stars \in {{}, {[repo |-> "r1", star_count |-> MaxStars,
                             last_updated |-> FirstQueryDay - 1]}}
    /\ (backend = "firestore" => repo_stars = {})
    /\ now = FirstQueryDay
    /\ ops = 0
    /\ last = NoCall
    /\ configured = TRUE
    /\ bg = IdleBg
    /\ cycle = NoCycle
    /\ http = IdleHttp
    /\ proc = StartedProc
    /\ txn = NoTxn
    /\ sched = StartedThread

\* time.sleep / the days between two requests
DayPasses ==
    /\ now < FirstQueryDay + MaxDrift
    /\ now' = now + 1
    /\ UNCHANGED <<backend, db, ops, last, threads>>

\* GET /api/repo/stats, the badge: adapter.get_stats_for_repo(repo_name)
QueryStats(repo_name, midnight) ==
    /\ last' = Entry("get_stats_for_repo", repo_name, <<midnight>>,
                     IF backend = "sqlite"
                        THEN get_stats_for_repo(Tables, repo_name, now, midnight)
                        ELSE Firestore_get_stats_for_repo(Tables, repo_name, now),
                     {})
    /\ UNCHANGED <<backend, db, now, ops, threads>>

\* GET /api/stats: adapter.get_all_repos_summary()
QueryAll(midnight) ==
    /\ \E o \in IF backend = "sqlite"
                  THEN {[raised |-> FALSE,
                         results |-> get_all_repos_summary(Tables, now, midnight)]}
                  ELSE Firestore_get_all_repos_summary(Tables) :
          last' = Entry("get_all_repos_summary", "", <<midnight>>, o, {})
    /\ UNCHANGED <<backend, db, now, ops, threads>>

\* GET /api/export, then POST /api/import of that snapshot with
\* replace_existing = true into an empty store, which is then the store
\* queried; `before` keeps what get_all_repos_summary said of the source.
ExportImport(midnight) ==
    /\ backend = "sqlite"
    /\ ops < MaxOps
    /\ ops' = ops + 1
    /\ LET data == export_database(Tables)
           r == import_database(EmptyDb, data, TRUE, "none")
       IN  /\ clone_history' = r.db.clone_history
           /\ view_history' = r.db.view_history
           /\ tracked_repos' = r.db.tracked_repos
           /\ repo_stars' = r.db.repo_stars
           /\ last' = Entry("export_import", "", <<midnight>>,
                            IF r.ret THEN "true" ELSE "false",
                            get_all_repos_summary(Tables, now, midnight))
    /\ UNCHANGED <<backend, now, threads>>

NextQuery ==
    \/ DayPasses
    \/ \E r \in Repos, midnight \in BOOLEAN : QueryStats(r, midnight)
    \/ \E midnight \in BOOLEAN : QueryAll(midnight)
    \/ \E midnight \in BOOLEAN : ExportImport(midnight)

SpecQuery == InitQuery /\ [][NextQuery]_vars

\* --------------------------------------- the process: paths and locations

\* A tracker built from the environment resolves the path of a repository.
CallGetRepoPath(repo_name, owner_type) ==
    /\ ops < MaxOps
    /\ ops' = ops + 1
    /\ last' = Entry("_get_repo_path", "", <<repo_name, owner_type>>,
                     get_repo_path(repo_name, owner_type,
                                   proc.github_username, proc.github_org),
                     {})
    /\ UNCHANGED <<backend, db, now, threads>>

\* get_database_manager: the SQLite manager is built on the resolved path,
\* which the first call stores in the module global.
GetDatabaseManager ==
    /\ ops < MaxOps
    /\ ops' = ops + 1
    /\ IF backend = "sqlite"
         THEN /\ proc' = [proc EXCEPT !.resolved_db_path =
                                        get_resolved_database_path(proc)]
              /\ last' = Entry("get_database_manager", "", <<>>,
                               get_resolved_database_path(proc), {})
         ELSE /\ proc' = proc
              /\ last' = Entry("get_database_manager", "", <<>>, "firestore", {})
    /\ UNCHANGED <<backend, db, now, configured, txn, sched, bg, cycle, http>>

\* A directory becomes writable or stops being so while the process runs.
DirectoryChanges(primary, fallback) ==
    /\ <<primary, fallback>> # <<proc.primary_writable, proc.fallback_writable>>
    /\ proc' = [proc EXCEPT !.primary_writable = primary,
                            !.fallback_writable = fallback]
    /\ UNCHANGED <<backend, db, now, ops, last, configured, txn, sched, bg, cycle,
                   http>>

InitProcess ==
    /\ backend \in Backends
    /\ clone_history = {}
    /\ view_history = {}
    /\ tracked_repos = {}
    /\ repo_stars = {}
    /\ now = 1
    /\ ops = 0
    /\ last = NoCall
    /\ configured = TRUE
    /\ bg = IdleBg
    /\ cycle = NoCycle
    /\ http = IdleHttp
    /\ proc \in Procs
    /\ txn = NoTxn
    /\ sched = StartedThread

NextProcess ==
    \/ \E repo_name \in RepoNames, owner_type \in OwnerTypeArgs :
            CallGetRepoPath(repo_name, owner_type)
    \/ GetDatabaseManager
    \/ \E primary, fallback \in BOOLEAN : DirectoryChanges(primary, fallback)

SpecProcess == InitProcess /\ [][NextProcess]_vars

\* ------------------------------------- merge-writes on two connections

\* The batches written here name every day, with the same counters for all.
FullBatches == {[d \in Days |-> Record(cu[1], d, cu[2])] : cu \in RecordVals}

\* A table in which every row committed after each statement is visible.
AfterStatement_autocommit(committed, inside) == inside

\* What the other connections read after a statement inside `with
\* self.conn:`: the committed table, until the block commits.
AfterStatement(committed, inside) == committed

\* upsert_*_records is entered with a non-empty list.  SQLite admits one
\* write transaction at a time: the second writer gets sqlite3.
\* OperationalError (database is locked) and raises.  A Firestore batch is
\* local until its commit.
TxnBegin(c, kind, repo, records) ==
    /\ ops < MaxOps
    /\ txn[c].pc = "idle"
    /\ ops' = ops + 1
    /\ txn' = IF backend = "sqlite" /\ \E o \in Conns : txn[o].pc = "writing"
                THEN [txn EXCEPT ![c] = [IdleTxn EXCEPT !.outcome = "raise"]]
                ELSE [txn EXCEPT ![c] = [pc |-> "writing", kind |-> kind,
                                         done |-> <<>>,
                                         todo |-> RowsOf(repo, records),
                                         outcome |-> "none"]]
    /\ UNCHANGED <<backend, db, now, last, configured, proc, sched, bg, cycle,
                   http>>

\* executemany runs the statement for the next parameter tuple; batch.set
\* adds the next document to the batch.  A sqlite3.Error leaves the `with`
\* block, which rolls the transaction back, and is raised.
TxnExecute(c, ok) ==
    /\ txn[c].pc = "writing"
    /\ txn[c].todo # <<>>
    /\ ok \/ backend = "sqlite"
    /\ LET done == Append(txn[c].done, Head(txn[c].todo))
           table == IF txn[c].kind = "clones" THEN clone_history
                    ELSE view_history
           seen == IF ok /\ backend = "sqlite"
                     THEN AfterStatement(table, ExecuteManyReplace(table, done))
                     ELSE table
       IN  /\ txn' = IF ok
                       THEN [txn EXCEPT ![c].done = done, ![c].todo = Tail(@)]
                       ELSE [txn EXCEPT ![c] = [IdleTxn EXCEPT !.outcome = "raise"]]
           /\ clone_history' = IF txn[c].kind = "clones" THEN seen
                                ELSE clone_history
           /\ view_history' = IF txn[c].kind = "views" THEN seen
                               ELSE view_history
    /\ UNCHANGED <<backend, tracked_repos, repo_stars, now, ops, last,
                   configured, proc, sched, bg, cycle, http>>

\* The `with` block ends and commits; batch.commit().  A failed commit
\* stores nothing and is raised.
TxnCommit(c, ok) ==
    /\ txn[c].pc = "writing"
    /\ txn[c].todo = <<>>
    /\ LET table == IF txn[c].kind = "clones" THEN clone_history
                    ELSE view_history
           written == IF ~ok THEN table
                      ELSE IF backend = "sqlite"
                        THEN ExecuteManyReplace(table, txn[c].done)
                        ELSE BatchSet(table, txn[c].done)
       IN  /\ clone_history' = IF txn[c].kind = "clones" THEN written
                                ELSE clone_history
           /\ view_history' = IF txn[c].kind = "views" THEN written
                               ELSE view_history
    /\ txn' = [txn EXCEPT ![c] = [IdleTxn EXCEPT !.outcome =
                                      IF ok THEN "ok" ELSE "raise"]]
    /\ UNCHANGED <<backend, tracked_repos, repo_stars, now, ops, last,
                   configured, proc, sched, bg, cycle, http>>

NextTxn ==
    \/ \E c \in Conns, kind \in {"clones", "views"}, repo \in Repos,
          records \in FullBatches : TxnBegin(c, kind, repo, records)
    \/ \E c \in Conns, ok \in BOOLEAN : TxnExecute(c, ok)
    \/ \E c \in Conns, ok \in BOOLEAN : TxnCommit(c, ok)

SpecTxn == InitStore /\ [][NextTxn]_vars

\* ------------------------------------------------------------ upstream

RawKeys == {"count", "timestamp", "uniques"}

\* CloneRecord.from_github_entry / ViewRecord.from_github_entry:
\* cls(entry["count"], entry["timestamp"], entry["uniques"]); a missing key
\* is a KeyError.
Subscriptable(entry) == RawKeys \subseteq DOMAIN entry
from_github_entry(entry) == Record(entry.count, entry.timestamp, entry.uniques)

\* The entry lists a traffic payload may carry: empty, one day, a day
\* followed by an entry without "uniques" and, for the clones, a day with
\* more uniques than count.
SyncPayloads(key) ==
    {<<>>,
     <<[count |-> MaxCount, timestamp |-> MaxDay, uniques |-> 0]>>,
     <<[count |-> 1, timestamp |-> 1, uniques |-> 1],
       [count |-> 1, timestamp |-> MaxDay]>>}
    \cup IF key = "clones"
           THEN {<<[count |-> 0, timestamp |-> MaxDay, uniques |-> MaxCount]>>}
           ELSE {}

\* A 2xx body that is a JSON object without the expected key.
OtherBody == [message |-> "moved"]

\* dict.get(key, default)
DictGet(body, key, default) == IF key \in DOMAIN body THEN body[key] ELSE default

\* What one traffic request returns: a RequestException, or response.json().
Fetches(key) ==
    {[status |-> "error", body |-> OtherBody]}
    \cup {[status |-> "ok", body |-> [k \in {key} |-> p]] : p \in SyncPayloads(key)}
    \cup {[status |-> "ok", body |-> OtherBody]}

\* What the metadata request returns: a RequestException, or response.json().
MetaFetches ==
    {[status |-> "error", body |-> OtherBody]}
    \cup {[status |-> "ok", body |-> [stargazers_count |-> n]] : n \in Stars}
    \cup {[status |-> "ok", body |-> OtherBody]}

\* --------------------------------------------- GitHubStatsTracker, run_sync

\* The orders in which a SELECT without ORDER BY may list the rows.
Orders(S) ==
    {q \in [1..Cardinality(S) -> S] :
        \A i, j \in 1..Cardinality(S) : q[i] = q[j] => i = j}

\* The names bound in update_all_repositories when its except clause runs.
UpdateAllLocals ==
    {"self", "tracked_repos", "repos_to_update", "repo_info", "repo_name",
     "owner_type", "e"}

\* The except clause formats f"Failed to update {repo}: {e}" before its
\* `continue`: it reaches `continue` only if the name repo is bound.
HandlerContinues == "repo" \in UpdateAllLocals

SyncSteps == {"clones", "views", "metadata", "stars"}

store == <<ops, last>>

\* __exit__ at the end of the `with db_manager:` block: DatabaseManager
\* closes its sqlite3 connection; FirestoreDatabaseManager.__exit__ is `pass`
\* and the firestore.Client made in __init__ stays as it is.
Exit(conn) == IF backend = "sqlite" THEN "closed" ELSE conn

\* The loop of update_all_repositories moves to the next repo_info, or ends
\* and run_sync returns (True, "Sync successful").
Advance(c) ==
    IF bg.queue = <<>>
        THEN /\ bg' = [bg EXCEPT !.pc = "idle", !.cur = "", !.owner_type = "",
                                 !.coerced = FALSE, !.conn = Exit(@)]
             /\ cycle' = [c EXCEPT !.result = "success"]
        ELSE /\ bg' = [bg EXCEPT !.pc = "clones", !.queue = Tail(@),
                                 !.cur = Head(bg.queue).repo_name,
                                 !.owner_type = Head(bg.queue).owner_type,
                                 !.coerced = FALSE]
             /\ cycle' = [c EXCEPT !.attempted = @ \cup {Head(bg.queue).repo_name}]

\* _update_repository logs and re-raises; the except clause of the loop runs.
\* When it cannot continue, its own exception leaves update_all_repositories
\* and the `with` block, and run_sync returns (False, str(e)).
Raise(seen) ==
    LET c == [seen EXCEPT !.failed = @ \cup {bg.cur}]
    IN  IF HandlerContinues
            THEN Advance(c)
            ELSE /\ bg' = [bg EXCEPT !.pc = "idle", !.queue = <<>>, !.cur = "",
                                     !.owner_type = "", !.coerced = FALSE,
                                     !.conn = Exit(@)]
                 /\ cycle' = [c EXCEPT !.result = "failure"]

\* What get_tracked_repos returns to update_all_repositories.  SQLite's
\* _execute_query turns a sqlite3.Error into [], and the tracker then falls
\* back on the configured list, which load_configuration leaves empty.
Listings ==
    IF backend = "sqlite"
        THEN Orders(get_tracked_repos(tracked_repos)) \cup {<<>>}
        ELSE Orders(Firestore_get_tracked_repos(tracked_repos))

\* A configuration loader that goes on with an unset variable.
load_configuration_lenient == "ok"

\* load_configuration: ValueError unless GITHUB_TOKEN and GITHUB_USERNAME are
\* both set.
load_configuration == IF configured THEN "ok" ELSE "ValueError"

\* run_sync up to the first repository: load_configuration, the storage is
\* opened and set up, the active repositories are listed.
RunSyncBegin(opened, order) ==
    /\ bg.pc = "idle"
    /\ bg.cycles < MaxCycles
    /\ opened \/ backend = "sqlite"
    /\ order \in Listings
    /\ IF load_configuration = "ValueError"
         THEN /\ bg' = [bg EXCEPT !.cycles = @ + 1, !.conn = "none"]
              /\ cycle' = [NoCycle EXCEPT !.result = "failure"]
       ELSE IF ~opened
         THEN /\ bg' = [bg EXCEPT !.cycles = @ + 1, !.conn = "none"]
              /\ cycle' = [NoCycle EXCEPT !.config_loaded = TRUE,
                                          !.result = "failure"]
       ELSE IF order = <<>>
         THEN /\ bg' = [bg EXCEPT !.cycles = @ + 1, !.conn = Exit("open")]
              /\ cycle' = [NoCycle EXCEPT !.config_loaded = TRUE,
                                          !.storage_opened = TRUE,
                                          !.result = "success"]
       ELSE /\ bg' = [pc |-> "clones", queue |-> Tail(order),
                      cur |-> Head(order).repo_name,
                      owner_type |-> Head(order).owner_type,
                      coerced |-> FALSE, cycles |-> bg.cycles + 1,
                      conn |-> "open"]
            /\ cycle' = [NoCycle EXCEPT
                            !.config_loaded = TRUE, !.storage_opened = TRUE,
                            !.listed = {order[i].repo_name : i \in 1..Len(order)},
                            !.attempted = {Head(order).repo_name},
                            !.result = "running"]
    /\ UNCHANGED <<backend, db, now, store, process, http>>

\* _update_repository, clone part: fetch, build the records, upsert them.
SyncClones(fetch, ok) ==
    /\ bg.pc = "clones"
    /\ LET clone_entries == DictGet(fetch.body, "clones", <<>>)
           entries == clone_entries
           good == fetch.status = "ok"
                   /\ \A i \in 1..Len(entries) : Subscriptable(entries[i])
           clone_records_to_upsert ==
               [i \in 1..Len(entries) |-> from_github_entry(entries[i])]
           seen == IF fetch.status = "ok" /\ ~good
                     THEN [cycle EXCEPT !.malformed = @ \cup {bg.cur}]
                   ELSE cycle
           defaulted == "clones" \notin DOMAIN fetch.body
       IN  /\ ok \/ (good /\ entries # <<>>)
           /\ IF good /\ ok
             THEN /\ clone_history' =
                        IF clone_records_to_upsert = <<>> THEN clone_history
                        ELSE IF backend = "sqlite"
                          THEN upsert_clone_records(clone_history, bg.cur,
                                                    clone_records_to_upsert)
                          ELSE Firestore_upsert_clone_records(
                                    clone_history, bg.cur, clone_records_to_upsert)
                  /\ bg' = [bg EXCEPT !.pc = "views", !.coerced = @ \/ defaulted]
                  /\ cycle' = [seen EXCEPT !.done[bg.cur] = @ \cup {"clones"}]
             ELSE /\ Raise(seen)
                  /\ UNCHANGED clone_history
    /\ UNCHANGED <<backend, view_history, tracked_repos, repo_stars, now, store,
                   process, http>>

\* _update_repository, view part.
SyncViews(fetch, ok) ==
    /\ bg.pc = "views"
    /\ LET view_entries == DictGet(fetch.body, "views", <<>>)
           entries == view_entries
           good == fetch.status = "ok"
                   /\ \A i \in 1..Len(entries) : Subscriptable(entries[i])
           view_records_to_upsert ==
               [i \in 1..Len(entries) |-> from_github_entry(entries[i])]
           seen == IF fetch.status = "ok" /\ ~good
                     THEN [cycle EXCEPT !.malformed = @ \cup {bg.cur}]
                   ELSE cycle
           defaulted == "views" \notin DOMAIN fetch.body
       IN  /\ ok \/ (good /\ entries # <<>>)
           /\ IF good /\ ok
             THEN /\ view_history' =
                        IF view_records_to_upsert = <<>> THEN view_history
                        ELSE IF backend = "sqlite"
                          THEN upsert_view_records(view_history, bg.cur,
                                                   view_records_to_upsert)
                          ELSE Firestore_upsert_view_records(
                                    view_history, bg.cur, view_records_to_upsert)
                  /\ bg' = [bg EXCEPT !.pc = "stars", !.coerced = @ \/ defaulted]
                  /\ cycle' = [seen EXCEPT !.done[bg.cur] = @ \cup {"views"}]
             ELSE /\ Raise(seen)
                  /\ UNCHANGED view_history
    /\ UNCHANGED <<backend, clone_history, tracked_repos, repo_stars, now, store,
                   process, http>>

\* _update_repository, star part: the metadata is fetched and
\* update_repo_stars called; its return value is not looked at.  The
\* Firestore manager has no update_repo_stars (AttributeError).
SyncStars(fetch, ok) ==
    /\ bg.pc = "stars"
    /\ ok \/ (fetch.status = "ok" /\ backend = "sqlite")
    /\ LET star_count == DictGet(fetch.body, "stargazers_count", 0)
           defaulted == "stargazers_count" \notin DOMAIN fetch.body
       IN  IF fetch.status = "ok" /\ backend = "sqlite"
             THEN /\ repo_stars' =
                        IF ok THEN update_repo_stars(repo_stars, bg.cur,
                                                     star_count, now)
                        ELSE repo_stars
                  /\ now' = IF ok THEN Later ELSE now
                  /\ bg' = [bg EXCEPT !.pc = "mark", !.coerced = @ \/ defaulted]
                  /\ cycle' = [cycle EXCEPT !.done[bg.cur] =
                                  @ \cup (IF ok THEN {"metadata", "stars"}
                                          ELSE {"metadata"})]
             ELSE /\ Raise(cycle)
                  /\ UNCHANGED <<repo_stars, now>>
    /\ UNCHANGED <<backend, clone_history, view_history, tracked_repos, store,
                   process, http>>

\* _update_repository, last step: update_tracked_repo, then the loop goes on.
\* SQLite swallows a sqlite3.Error here; a Firestore error is raised.
SyncMark(ok) ==
    /\ bg.pc = "mark"
    /\ IF ok
         THEN /\ tracked_repos' =
                    IF backend = "sqlite"
                      THEN update_tracked_repo(tracked_repos, bg.cur, now)
                      ELSE Firestore_update_tracked_repo(tracked_repos, bg.cur, now)
              /\ now' = Later
              /\ Advance([cycle EXCEPT !.marked =
                            IF \E x \in tracked_repos' :
                                  x.repo_name = bg.cur /\ x.last_sync = now
                              THEN @ \cup {bg.cur} ELSE @])
       ELSE IF backend = "sqlite"
         THEN /\ Advance(cycle)
              /\ UNCHANGED <<tracked_repos, now>>
       ELSE /\ Raise(cycle)
            /\ UNCHANGED <<tracked_repos, now>>
    /\ UNCHANGED <<backend, clone_history, view_history, repo_stars, store,
                   process, http>>

\* ------------------------------------------------ the /api request handlers

\* Positional arguments (after self) the managers' methods take, and the
\* number UserContext passes: it appends self.user_id to every call.
MaxPositional ==
    [get_tracked_repos |-> 0, add_tracked_repo |-> 2, remove_tracked_repo |-> 1]
PassedByUserContext ==
    [get_tracked_repos |-> 1, add_tracked_repo |-> 3, remove_tracked_repo |-> 2]
TypeErrorOn(method) == PassedByUserContext[method] > MaxPositional[method]

\* UserContext.is_authenticated without OAuth: both environment variables.
is_authenticated == configured

\* GET /api/sync up to the call of user_context.sync_repositories().
HttpSyncBegin(opened) ==
    /\ http.pc = "idle"
    /\ http.requests < MaxRequests
    /\ opened \/ backend = "sqlite"
    /\ http' = IF ~opened
                 THEN [http EXCEPT !.requests = @ + 1, !.status = 500]
               ELSE IF ~is_authenticated
                 THEN [http EXCEPT !.requests = @ + 1, !.status = 401]
               ELSE [http EXCEPT !.requests = @ + 1, !.pc = "sync", !.status = 0]
    /\ UNCHANGED <<backend, db, now, store, process, bg, cycle>>

\* sync_repositories: create_stats_tracker asks get_tracked_repos(user_id);
\* the TypeError is caught and (False, "Sync failed: ...") returned.
HttpSyncRun ==
    /\ http.pc = "sync"
    /\ TypeErrorOn("get_tracked_repos")
    /\ http' = [http EXCEPT !.pc = "idle", !.status = 500]
    /\ UNCHANGED <<backend, db, now, store, process, bg, cycle>>

\* POST /api/tracked-repos/add and /remove: the TypeError of the manager call
\* is caught by the handler.
HttpTrackedRepos(method, opened) ==
    /\ http.pc = "idle"
    /\ http.requests < MaxRequests
    /\ opened \/ backend = "sqlite"
    /\ TypeErrorOn(method)
    /\ http' = [http EXCEPT !.requests = @ + 1,
                            !.status = IF opened /\ ~is_authenticated
                                         THEN 401 ELSE 500]
    /\ UNCHANGED <<backend, db, now, store, process, bg, cycle>>

\* ------------------------------------------------------------ the server

\* A store in which the repositories of `tracked` were added and never synced.
Init ==
    /\ backend \in Backends
    /\ configured \in BOOLEAN
    /\ clone_history = {}
    /\ view_history = {}
    /\ \E tracked \in SUBSET Repos :
          tracked_repos = {[repo_name |-> r, added_at |-> 1, is_active |-> 1,
                            last_sync |-> NULL, owner_type |-> "user"] :
                                r \in tracked}
    /\ repo_stars = {}
    /\ now = 1
    /\ ops = 0
    /\ last = NoCall
    /\ bg = IdleBg
    /\ cycle = NoCycle
    /\ http = IdleHttp
    /\ proc = StartedProc
    /\ txn = NoTxn
    /\ sched = StartedThread

Next ==
    \/ \E opened \in BOOLEAN, order \in Listings : RunSyncBegin(opened, order)
    \/ \E fetch \in Fetches("clones"), ok \in BOOLEAN : SyncClones(fetch, ok)
    \/ \E fetch \in Fetches("views"), ok \in BOOLEAN : SyncViews(fetch, ok)
    \/ \E fetch \in MetaFetches, ok \in BOOLEAN : SyncStars(fetch, ok)
    \/ \E ok \in BOOLEAN : SyncMark(ok)
    \/ \E opened \in BOOLEAN : HttpSyncBegin(opened)
    \/ HttpSyncRun
    \/ \E method \in {"add_tracked_repo", "remove_tracked_repo"},
          opened \in BOOLEAN : HttpTrackedRepos(method, opened)

Spec == Init /\ [][Next]_vars

\* ------------------------------------------------------------ the scheduler

\* A loop that never reads the flag: `while True:`.
LoopTest_forever ==
    /\ sched.alive
    /\ bg.pc = "idle"
    /\ sched.passed = bg.cycles
    /\ sched' = [sched EXCEPT !.passed = @ + 1, !.retry = cycle.failed]
    /\ UNCHANGED <<backend, db, now, store, configured, proc, txn, bg, cycle,
                   http>>

\* BackgroundSyncThread.run, `while self.running:` at the top of an
\* iteration: with the flag set the thread enters time.sleep(interval),
\* otherwise run() returns.  The try/except around the body keeps whatever
\* run_sync returned or raised away from the loop.
LoopTest ==
    /\ sched.alive
    /\ bg.pc = "idle"
    /\ sched.passed = bg.cycles
    /\ sched' = IF sched.running
                  THEN [sched EXCEPT !.passed = @ + 1, !.retry = cycle.failed]
                  ELSE [sched EXCEPT !.alive = FALSE]
    /\ UNCHANGED <<backend, db, now, store, configured, proc, txn, bg, cycle,
                   http>>

\* BackgroundSyncThread.stop, which run_server calls on KeyboardInterrupt.
Stop ==
    /\ sched.running
    /\ sched' = [sched EXCEPT !.running = FALSE, !.stopped_at = bg.cycles]
    /\ UNCHANGED <<backend, db, now, store, configured, proc, txn, bg, cycle,
                   http>>

\* time.sleep returns and the thread calls run_sync().
ScheduledSync(opened, order) ==
    /\ sched.alive
    /\ sched.passed > bg.cycles
    /\ RunSyncBegin(opened, order)

NextScheduler ==
    \/ LoopTest
    \/ Stop
    \/ \E opened \in BOOLEAN, order \in Listings : ScheduledSync(opened, order)
    \/ \E fetch \in Fetches("clones"), ok \in BOOLEAN : SyncClones(fetch, ok)
    \/ \E fetch \in Fetches("views"), ok \in BOOLEAN : SyncViews(fetch, ok)
    \/ \E fetch \in MetaFetches, ok \in BOOLEAN : SyncStars(fetch, ok)
    \/ \E ok \in BOOLEAN : SyncMark(ok)

SpecScheduler == Init /\ [][NextScheduler]_vars

\* ------------------------------------------------------------ the API

\* POST /api/import: the body is parsed, the manager is opened and set up,
\* and import_database is called on it; the handler builds no user context.
\* FirestoreDatabaseManager has no import_database: the AttributeError is
\* caught and answered with 500, as is a False from import_database.
HttpImport(data, replace_existing, opened) ==
    /\ http.pc = "idle"
    /\ http.requests < MaxRequests
    /\ opened \/ backend = "sqlite"
    /\ LET r == IF backend = "sqlite"
                  THEN import_database(setup_database(Tables), data,
                                       replace_existing, "none")
                  ELSE [db |-> Tables, ret |-> FALSE]
       IN  /\ clone_history' = r.db.clone_history
           /\ view_history' = r.db.view_history
           /\ tracked_repos' = r.db.tracked_repos
           /\ repo_stars' = r.db.repo_stars
           /\ http' = [http EXCEPT !.requests = @ + 1,
                                   !.status = IF r.ret THEN 200 ELSE 500]
    /\ UNCHANGED <<backend, now, store, process, bg, cycle>>

\* The requests of do_GET / do_POST that change stored state.
NextApi ==
    \/ \E opened \in BOOLEAN : HttpSyncBegin(opened)
    \/ HttpSyncRun
    \/ \E method \in {"add_tracked_repo", "remove_tracked_repo"},
          opened \in BOOLEAN : HttpTrackedRepos(method, opened)
    \/ \E data \in ImportSnapshots, replace_existing, opened \in BOOLEAN :
            HttpImport(data, replace_existing, opened)

\* A store in which repositories were added, some of them removed again,
\* and none synced.
InitApi ==
    /\ backend \in Backends
    /\ configured \in BOOLEAN
    /\ clone_history = {}
    /\ view_history = {}
    /\ \E tracked \in SUBSET Repos : \E removed \in SUBSET tracked :
          tracked_repos = {[repo_name |-> r, added_at |-> 1,
                            is_active |-> IF r \in removed THEN 0 ELSE 1,
                            last_sync |-> NULL, owner_type |-> "user"] :
                                r \in tracked}
    /\ repo_stars = {}
    /\ now = 1
    /\ ops = 0
    /\ last = NoCall
    /\ bg = IdleBg
    /\ cycle = NoCycle
    /\ http = IdleHttp
    /\ proc = StartedProc
    /\ txn = NoTxn
    /\ sched = StartedThread

SpecApi == InitApi /\ [][NextApi]_vars

\* ------------------------------------------------------------ properties

MergeWrites == {"upsert_clone_records", "upsert_view_records"}

\* The table a logged merge-write addresses.
Written == IF last.op = "upsert_clone_records" THEN clone_history ELSE view_history

\* C1 (upsert-wins): after a merge-write of a record whose key (repo, day)
\* was already stored, the table holds exactly one row for that key and the
\* row carries the incoming count and uniques.
UpsertWins ==
    (last.op \in MergeWrites /\ last.ret = "ok") =>
        \A i \in 1..Len(last.arg[1]) :
            (\E x \in last.before : x.timestamp = last.arg[1][i].timestamp) =>
                {x \in Written : x.repo = last.repo
                                 /\ x.timestamp = last.arg[1][i].timestamp}
                    = {HistoryRow(last.repo, last.arg[1][i])}

\* A merge-write has overwritten a stored clone row that carried other values.
UpsertWinsWitness ==
    /\ last.op = "upsert_clone_records"
    /\ last.ret = "ok"
    /\ \E i \in 1..Len(last.arg[1]) : \E x \in last.before :
          /\ x.timestamp = last.arg[1][i].timestamp
          /\ <<x.count, x.uniques>> # <<last.arg[1][i].count, last.arg[1][i].uniques>>

\* C2 (idempotent merge): a merge-write that repeats the merge-write made just
\* before it (same repository, same kind, same records) leaves the clone and
\* the view history as they were.
IdempotentMerge ==
    [][(ops' = ops + 1 /\ last'.op \in MergeWrites /\ last'.ret = "ok"
            /\ last'.again)
        => (clone_history' = clone_history /\ view_history' = view_history)]_vars

\* The same non-empty record set was merge-written twice in a row.
IdempotentMergeWitness ==
    /\ last.op \in MergeWrites
    /\ last.ret = "ok"
    /\ last.again
    /\ last.arg[1] # <<>>

\* The rows a history request with the default `days` returns.
Returned(table, repo_name) ==
    LET h == get_repo_history(table, repo_name, DefaultDays)
    IN  {h[i] : i \in 1..Len(h)}

HistoryOf(table, repo_name) ==
    {[timestamp |-> x.timestamp, count |-> x.count, uniques |-> x.uniques] :
        x \in {y \in table : y.repo = repo_name}}

ActiveNames(table) ==
    {a.repo_name : a \in IF backend = "sqlite" THEN get_tracked_repos(table)
                         ELSE Firestore_get_tracked_repos(table)}

OneRowPerRepository ==
    /\ \A r \in Repos : Cardinality({x \in tracked_repos : x.repo_name = r}) <= 1
    /\ (last.op = "add_tracked_repo" /\ last.ret = "true") =>
          \E x \in tracked_repos : x.repo_name = last.repo /\ x.is_active = 1

\* A deactivated repository has been tracked again.
OneRowPerRepositoryWitness ==
    /\ last.op = "add_tracked_repo"
    /\ last.ret = "true"
    /\ \E x \in last.before : x.is_active = 0

\* C10: a storage call other than update_tracked_repo (an import only with
\* replace_existing = False) leaves the last_sync of every row that has one
\* unchanged.
LastSyncOnlyBySynchronizer ==
    [][(/\ ops' = ops + 1
        /\ \/ last'.op \in MergeWrites \cup {"add_tracked_repo",
                  "remove_tracked_repo", "update_repo_stars", "setup_database"}
           \/ (last'.op = "import_database" /\ ~last'.arg[2]))
        => \A x \in tracked_repos :
              x.last_sync # NULL =>
                 \E y \in tracked_repos' :
                    y.repo_name = x.repo_name /\ y.last_sync = x.last_sync]_vars

\* C3 (batch fault isolation): when a sync cycle in which a repository
\* failed has ended, every repository of its batch was attempted.
BatchFaultIsolation ==
    (bg.pc = "idle" /\ cycle.failed # {}) => cycle.listed \subseteq cycle.attempted

\* C4: a sync cycle that loaded its configuration and opened the storage
\* returns success, whatever happened to single repositories.
SyncReportsSuccess ==
    (bg.pc = "idle" /\ cycle.config_loaded /\ cycle.storage_opened)
        => cycle.result = "success"

\* C5: a repository whose last_sync was set in a cycle had its three fetches
\* and its clone, view and star writes succeed in that cycle, and a repository
\* that failed in the cycle was not marked.
LastSyncOnlyAfterFullSync ==
    \A r \in Repos :
        /\ r \in cycle.marked => cycle.done[r] = SyncSteps
        /\ r \in cycle.failed => r \notin cycle.marked

RowsFor(r) ==
    <<{x \in clone_history : x.repo = r}, {x \in view_history : x.repo = r},
      {x \in tracked_repos : x.repo_name = r}, {x \in repo_stars : x.repo = r}>>

\* C6: a step of the synchronizer on repository bg.cur, successful or not,
\* leaves the history rows, the star row and the tracked row (active flag,
\* last_sync) of every other repository unchanged.
OtherRepositoriesUntouched ==
    [][(bg.pc \in {"clones", "views", "stars", "mark"} /\ bg' # bg)
        => \A r \in Repos \ {bg.cur} : RowsFor(r)' = RowsFor(r)]_vars

\* A repository failed in a cycle that had synced another one before it.
OtherRepositoriesUntouchedWitness ==
    \E r \in cycle.failed : \E r2 \in cycle.marked :
        /\ r2 # r
        /\ \E x \in clone_history : x.repo = r2
        /\ \E x \in repo_stars : x.repo = r2

\* C7: the request handler is never inside sync_repositories while run_sync
\* is inside its cycle.
SingleSyncAtATime == ~(bg.pc # "idle" /\ http.pc = "sync")

\* C11 (backend equivalence): on the same tables the Firestore adapter's
\* get_all_repos_summary returns, without raising, the set of summaries that
\* the SQLite adapter's returns, equal field by field.
BackendEquivalence ==
    \A midnight \in BOOLEAN :
        \A o \in Firestore_get_all_repos_summary(Tables) :
            /\ ~o.raised
            /\ o.results = get_all_repos_summary(Tables, now, midnight)

\* C12 (export/import round trip): exporting a store and importing the
\* snapshot with replace_existing = true into an empty store gives a store of
\* which get_all_repos_summary says what it said of the source.
ExportImportRoundTrip ==
    [][(ops' = ops + 1 /\ last'.op = "export_import")
        => get_all_repos_summary(Tables', now', last'.arg[1])
             = get_all_repos_summary(Tables, now, last'.arg[1])]_vars

RecordsOf(repo_name) ==
    RowsOfRepo(clone_history, repo_name) \cup RowsOfRepo(view_history, repo_name)

\* C15 (trailing window): get_stats_for_repo asked at time T reports as
\* last-14-days totals the sums of count and of uniques over the stored
\* records of the repository that lie within the 14 days before T; clone
\* records 20, 10 and 1 days old with counts 100, 50 and 10 give 60.
TrailingWindow ==
    [][(now' = now /\ ops' = ops /\ last'.op = "get_stats_for_repo")
        => LET rc == Recent(clone_history, last'.repo, now, last'.arg[1])
               rv == Recent(view_history, last'.repo, now, last'.arg[1])
               ages == {<<now - x.timestamp, x.count>> :
                            x \in RowsOfRepo(clone_history, last'.repo)}
           IN  /\ last'.ret.last_14_days_clones = SumOf(rc, "count")
               /\ last'.ret.last_14_days_unique_clones = SumOf(rc, "uniques")
               /\ last'.ret.last_14_days_views = SumOf(rv, "count")
               /\ last'.ret.last_14_days_unique_views = SumOf(rv, "uniques")
               /\ (ages = {<<20, 100>>, <<10, 50>>, <<1, 10>>}
                     => last'.ret.last_14_days_clones = 60)]_vars

\* C16 (first collected): on SQLite the first_collected of a repository is
\* the earliest day among its clone and view records together, NULL when it
\* has none, in get_stats_for_repo (for a repository with a tracked row) and
\* in get_all_repos_summary alike.
FirstCollected ==
    [][(now' = now /\ ops' = ops /\ backend = "sqlite")
        => /\ (/\ last'.op = "get_stats_for_repo"
               /\ \E x \in tracked_repos : x.repo_name = last'.repo)
                => last'.ret.first_collected = MinDay(RecordsOf(last'.repo))
           /\ last'.op = "get_all_repos_summary"
                => \A sm \in last'.ret.results :
                      /\ sm.first_collected = MinDay(RecordsOf(sm.repo))
                      /\ sm.first_collected
                           = get_stats_for_repo(Tables, sm.repo, now,
                                                last'.arg[1]).first_collected]_vars

\* The rows a snapshot names, and the snapshot's columns of the stored
\* tracked rows.
Named(list) == {list[i] : i \in 1..Len(list)}

TrackedColumns(table) ==
    {[repo_name |-> x.repo_name, added_at |-> x.added_at,
      is_active |-> x.is_active, owner_type |-> x.owner_type] : x \in table}

\* C13 (import, replace_existing = false): after a successful import every
\* stored history row is still there with its count and uniques, the
\* snapshot's history records with new keys have been added, and every
\* tracked row and star row the snapshot names is stored with the snapshot's
\* values.
ImportMerges ==
    [][(/\ ops' = ops + 1
        /\ last'.op = "import_database"
        /\ last'.ret = "true"
        /\ ~last'.arg[2])
        => LET data == last'.arg[1]
           IN  /\ clone_history \subseteq clone_history'
               /\ view_history \subseteq view_history'
               /\ \A x \in Named(data.clone_history) :
                     (\A y \in clone_history : ~SameKey(x, y))
                        => x \in clone_history'
               /\ \A x \in Named(data.view_history) :
                     (\A y \in view_history : ~SameKey(x, y))
                        => x \in view_history'
               /\ Named(data.tracked_repos) \subseteq TrackedColumns(tracked_repos')
               /\ Named(data.repo_stars) \subseteq repo_stars']_vars

\* C14 (import, replace_existing = true): after a successful import the four
\* tables hold exactly the rows of the snapshot, and an import that fails in
\* the clearing leaves all four tables as they were.
ImportReplaces ==
    [][(/\ ops' = ops + 1
        /\ last'.op = "import_database"
        /\ backend = "sqlite"
        /\ last'.arg[2])
        => LET data == last'.arg[1]
           IN  /\ last'.ret = "true" =>
                     /\ clone_history' = Named(data.clone_history)
                     /\ view_history' = Named(data.view_history)
                     /\ TrackedColumns(tracked_repos') = Named(data.tracked_repos)
                     /\ repo_stars' = Named(data.repo_stars)
               /\ last'.ret = "false" =>
                     \/ db' = db
                     \/ /\ clone_history' \subseteq Named(data.clone_history)
                        /\ view_history' \subseteq Named(data.view_history)
                        /\ TrackedColumns(tracked_repos')
                              \subseteq Named(data.tracked_repos)
                        /\ repo_stars' \subseteq Named(data.repo_stars)]_vars

\* The raw entries a traffic payload may carry.
RawEntries(key) == UNION {Named(p) : p \in SyncPayloads(key)}

\* C17: whenever the synchronizer is about to convert a payload, the record
\* factory fails for every raw entry that lacks count, timestamp or uniques
\* and for every entry with uniques > count; a record it returns has
\* uniques <= count and the entry's own values.
RecordFactoryValidates ==
    bg.pc \in {"clones", "views"} =>
    \A entry \in RawEntries(bg.pc) :
        /\ (RawKeys \subseteq DOMAIN entry /\ entry.uniques > entry.count)
              => ~Subscriptable(entry)
        /\ ~(RawKeys \subseteq DOMAIN entry) => ~Subscriptable(entry)
        /\ Subscriptable(entry) =>
              /\ from_github_entry(entry).uniques <= from_github_entry(entry).count
              /\ from_github_entry(entry)
                    = Record(entry.count, entry.timestamp, entry.uniques)

\* C18: a payload with a malformed entry does not end the repository's sync:
\* the synchronizer goes on to the repository's next step and the repository
\* is not among the failed ones.
MalformedEntrySkipped ==
    [][(bg.pc \in {"clones", "views"} /\ bg.cur \in cycle'.malformed)
        => /\ bg.cur \notin cycle'.failed
           /\ bg'.cur = bg.cur
           /\ bg'.pc = IF bg.pc = "clones" THEN "views" ELSE "stars"]_vars

\* C19: a response without the entries list or the star count makes the
\* repository fail: no star row is written from a body without star count,
\* and a repository one of whose three bodies lacked its key is not marked
\* synced.
MisshapenResponseFails ==
    [][/\ (bg.pc = "stars" /\ bg'.coerced /\ ~bg.coerced)
             => repo_stars' = repo_stars
       /\ (bg.pc = "mark" /\ bg.coerced) => tracked_repos' = tracked_repos]_vars

\* C20: every stored clone and view record has uniques <= count.
UniquesAtMostCount ==
    \A x \in clone_history \cup view_history : x.uniques <= x.count

\* C21: the path of a repository is the identifier itself when it holds a
\* '/', and else owner, '/', identifier, where the owner is the organization
\* when owner_type is 'org' and an organization is configured, and the user
\* name in every other case.
RepositoryPath ==
    last.op = "_get_repo_path" =>
        LET repo_name == last.arg[1]
            owner_type == last.arg[2]
            owner == IF owner_type = "org" /\ proc.github_org # <<>>
                       THEN proc.github_org ELSE proc.github_username
            path == last.ret
        IN  IF \E i \in 1..Len(repo_name) : repo_name[i] = "/"
              THEN path = repo_name
              ELSE /\ Len(path) = Len(owner) + 1 + Len(repo_name)
                   /\ \A i \in 1..Len(owner) : path[i] = owner[i]
                   /\ path[Len(owner) + 1] = "/"
                   /\ \A i \in 1..Len(repo_name) :
                          path[Len(owner) + 1 + i] = repo_name[i]

\* The path of an 'org' repository was resolved with no organization
\* configured, and is the user's.
RepositoryPathWitness ==
    /\ last.op = "_get_repo_path"
    /\ last.arg = <<(<<"r">>), "org">>
    /\ proc.github_org = <<>>
    /\ last.ret = proc.github_username \o <<"/", "r">>

\* C22: without the token or the user name a sync cycle ends before any
\* repository is listed or attempted: nothing is fetched, nothing is written
\* to the store, and run_sync reports failure.
MissingCredentialAborts ==
    ~configured =>
        /\ bg.pc = "idle" /\ http.pc = "idle"
        /\ ~cycle.storage_opened
        /\ cycle.listed = {} /\ cycle.attempted = {}
        /\ \A r \in Repos : cycle.done[r] = {}
        /\ bg.cycles > 0 => cycle.result = "failure"
        /\ http.status # 200
        /\ clone_history = {} /\ view_history = {} /\ repo_stars = {}
        /\ \A x \in tracked_repos : x.last_sync = NULL

\* run_sync ran without credentials on a store with a tracked repository.
MissingCredentialAbortsWitness ==
    /\ ~configured
    /\ bg.cycles > 0
    /\ cycle.result = "failure"
    /\ \E x \in tracked_repos : x.is_active = 1

\* C23: tracking a repository never raises: the call returns true with the
\* repository's row stored as active, or false.
TrackNeverRaises ==
    last.op = "add_tracked_repo" =>
        /\ last.ret \in {"true", "false"}
        /\ last.ret = "true" =>
              \E x \in tracked_repos : x.repo_name = last.repo /\ x.is_active = 1

\* C24: untracking a repository that is already inactive changes no row of
\* the store, and returns true unless the storage write itself failed.
UntrackIdempotent ==
    [][\A r \in Repos :
         (\E x \in tracked_repos : x.repo_name = r /\ x.is_active = 0) =>
            /\ (last'.op = "remove_tracked_repo" /\ last'.repo = r
                 /\ ops' = ops + 1) => db' = db
            /\ CallRemoveTrackedRepo(r, TRUE) => last'.ret = "true"]_vars

\* A repository was untracked twice in a row, both times with success.
UntrackIdempotentWitness ==
    /\ last.op = "remove_tracked_repo"
    /\ last.ret = "true"
    /\ last.again
    /\ \E x \in last.before : x.is_active = 0
    /\ \E x \in tracked_repos : x.repo_name = last.repo /\ x.is_active = 0

\* C25: the star snapshot never holds two rows of one repository, and a sync
\* of a repository that fetched its star count and goes on to mark the
\* repository synced has stored that count in the repository's row.
StarSnapshotOverwritten ==
    [][/\ \A x, y \in repo_stars' : x.repo = y.repo => x = y
       /\ \A fetch \in MetaFetches :
             (/\ \E ok \in BOOLEAN : SyncStars(fetch, ok)
              /\ bg'.pc = "mark"
              /\ "stargazers_count" \in DOMAIN fetch.body)
             => \E x \in repo_stars' :
                    /\ x.repo = bg.cur
                    /\ x.star_count = fetch.body.stargazers_count]_vars

\* C26: at every moment the stored records of a repository and kind are
\* those of whole batches: with batches that name every day with the same
\* counters, a repository has no record or one for every day, all with the
\* same counters, whether a write failed, is under way on another
\* connection, or two writes were made for the same keys.
BatchAtomic ==
    \A table \in {clone_history, view_history} : \A r \in Repos :
        LET rows == {x \in table : x.repo = r}
        IN  \/ rows = {}
            \/ \E b \in FullBatches :
                    rows = {RowsOf(r, b)[i] : i \in 1..Len(b)}

\* The store holds the whole batch of an earlier write while the write of
\* one connection has raised and another connection is inside a write, with
\* one statement executed.
BatchAtomicWitness ==
    \E c \in Conns :
        /\ txn[c].outcome = "raise"
        /\ \E o \in Conns : txn[o].pc = "writing" /\ Len(txn[o].done) = 1
        /\ \E x \in clone_history : x.count = MaxCount
        /\ Cardinality(clone_history) = MaxDay

\* C27: a step that is not an import with replace_existing = true loses no
\* key (repo, day) of the clone history or of the view history.
HistoryKeysKept ==
    [][\/ /\ last'.op = "import_database"
          /\ ops' = ops + 1
          /\ last'.arg[2]
       \/ /\ {<<x.repo, x.timestamp>> : x \in clone_history}
                \subseteq {<<x.repo, x.timestamp>> : x \in clone_history'}
          /\ {<<x.repo, x.timestamp>> : x \in view_history}
                \subseteq {<<x.repo, x.timestamp>> : x \in view_history'}]_vars

\* An import that does not replace succeeded on a store that held a record
\* of a repository the snapshot does not name, and the record is there.
HistoryKeysKeptWitness ==
    /\ last.op = "import_database"
    /\ ~last.arg[2]
    /\ last.ret = "true"
    /\ \E x \in clone_history : x.repo = "r2"
    /\ \E x \in clone_history : x.repo = "r1"

\* C28: a call of setup_database changes no row of any table.
SetupKeepsData ==
    [][(last'.op = "setup_database" /\ ops' = ops + 1) => db' = db]_vars

\* setup_database was called twice in a row on a store with rows in all four
\* tables.
SetupKeepsDataWitness ==
    /\ last.op = "setup_database"
    /\ last.again
    /\ clone_history # {} /\ view_history # {}
    /\ tracked_repos # {} /\ repo_stars # {}

ConnectionReleased ==
    /\ bg.pc # "idle" => bg.conn = "open"
    /\ bg.pc = "idle" => bg.conn # "open"

\* C31: no record of a repository is written before its clone, view and
\* metadata fetches have all succeeded: a step of the synchronizer made
\* while the view fetch or the metadata fetch is still to come changes
\* neither history.
WritesAfterAllFetches ==
    [][bg.pc \in {"clones", "views"}
          => clone_history' = clone_history /\ view_history' = view_history]_vars

\* C32: the all-time totals that get_stats_for_repo reports for a
\* repository are, for clones and for views, the sums of count and of
\* uniques over the records the store holds for it, 0 without records.
TotalsAreSums ==
    last.op = "get_stats_for_repo"
       => LET ch == RowsOfRepo(clone_history, last.repo)
              vh == RowsOfRepo(view_history, last.repo)
          IN  /\ last.ret.total_clones = SumOf(ch, "count")
              /\ last.ret.total_unique_clones = SumOf(ch, "uniques")
              /\ last.ret.total_views = SumOf(vh, "count")
              /\ last.ret.total_unique_views = SumOf(vh, "uniques")

\* C33: a sync requested through the API by an authenticated caller in
\* single-operator mode on the SQLite store returns success: when
\* sync_repositories has returned, the response is 200.
ApiSyncSucceeds ==
    [][(backend = "sqlite" /\ is_authenticated
        /\ http.pc = "sync" /\ http'.pc = "idle")
          => http'.status = 200]_vars

\* C34: a repository that failed in one cycle and is listed again in the
\* next cycle of the background thread is attempted in that cycle.
FailedIsRetried ==
    (bg.pc = "idle" /\ sched.passed = bg.cycles)
        => (sched.retry \cap cycle.listed) \subseteq cycle.attempted

\* C35: after stop() the thread begins at most one further sync cycle (the
\* one whose sleep it was in), the only thing its loop then does is end, and
\* a thread that ended runs no cycle.
StopEndsLoop ==
    /\ [](~sched.running => /\ bg.cycles <= sched.stopped_at + 1
                            /\ (~sched.alive => bg.pc = "idle"))
    /\ [][(~sched.running /\ sched' # sched) => ~sched'.alive]_vars
    /\ [][~sched.alive => bg' = bg /\ cycle' = cycle]_vars

\* stop() was called during the sleep, one more cycle ran, the thread ended.
StopEndsLoopWitness ==
    /\ ~sched.running
    /\ ~sched.alive
    /\ bg.cycles = sched.stopped_at + 1
    /\ cycle.result \in {"success", "failure"}

\* C36: once the process has resolved its storage path, the path the read
\* side (SQLiteAdapter) connects to is the path the write side
\* (DatabaseManager) was built on.
ReadsWhereWritten ==
    (backend = "sqlite" /\ proc.resolved_db_path # NULLTEXT)
        => SQLiteAdapter_db_path(proc) = proc.resolved_db_path

\* C37: an import_database call that returns false leaves the store with
\* exactly the rows it held before the call, with replace_existing or
\* without.
FailedImportKeepsStore ==
    [][(ops' = ops + 1 /\ last'.op = "import_database" /\ last'.ret = "false")
          => UNCHANGED db]_vars

\* C38: update_tracked_repo changes neither which repositories have a
\* tracked row nor which of them are active, whether the repository it is
\* called for is active, inactive or has no row.
MarkKeepsTracking ==
    [][(ops' = ops + 1 /\ last'.op = "update_tracked_repo")
          => {<<x.repo_name, x.is_active>> : x \in tracked_repos'}
                = {<<x.repo_name, x.is_active>> : x \in tracked_repos}]_vars

\* C39: a state-changing request of an unauthenticated caller is never
\* answered with success, starts no sync and leaves every table as it was.
WritesNeedAuthentication ==
    [][(~is_authenticated /\ http'.requests = http.requests + 1)
          => /\ http'.status # 200
             /\ http'.pc = "idle"
             /\ UNCHANGED db]_vars

====
